---------------------------- MODULE Spec2Model ----------------------------
(***************************************************************************)
(* The text and ANSI log-entry encoders of zap (text_encoder.go,           *)
(* ansi_encoder.go, bytes.go): pooled encoder instances, the Add<Type>     *)
(* field accumulators, Clone, and WriteEntry.                              *)
(*                                                                         *)
(* A byte is a one-character string and a []byte or Go string is a         *)
(* sequence of them.  A []byte field is a slice: a backing array (arr), a  *)
(* length (len) and the array's contents (mem).  The bytes of an array     *)
(* that lie beyond the length of every slice onto it are never read by     *)
(* the source (it never reslices upward, and append overwrites them), so   *)
(* mem keeps an array only up to its longest slice.  Capacity is taken to  *)
(* be large enough (_initialBufSize) that append never reallocates.        *)
(***************************************************************************)
EXTENDS Integers, Sequences, FiniteSets, TLC

\* ------------------------------------------------------------------ bounds
MaxInst == 3        \* SpecConc: encoder instances that are ever allocated
MaxSeqInst == 2     \* the other specifications: the same
MaxBuf == 1         \* Spec: a field is added only while the buffer is shorter
MaxFieldBuf == 5    \* SpecFields: the same, with room for several fields
MaxThreads == 2     \* goroutines of the concurrent specification
MaxHexLen == 3      \* SpecHex: byte sequences up to this length

Inst == 1..MaxInst
SeqInst == 1..MaxSeqInst
Threads == 1..MaxThreads

\* ------------------------------------------------------------- byte helpers
Last(b) == b[Len(b)]

IsPrefix(p, b) == Len(p) <= Len(b) /\ SubSeq(b, 1, Len(p)) = p

Suffix(b, n) == SubSeq(b, n + 1, Len(b))

\* ---------------------------------------------------------------- bytes.go
hextable ==
  <<"0", "1", "2", "3", "4", "5", "6", "7", "8", "9", "A", "B", "C", "D", "E", "F">>

\* hextable[v] in place of hextable[v>>4], taken within the table.
HexHi_Unshifted(v) == hextable[(v % 16) + 1]

\* hextable[v>>4] and hextable[v&0x0F]; Go strings index from 0.
HexHi(v) == hextable[(v \div 16) + 1]

HexLo(v) == hextable[(v % 16) + 1]

RECURSIVE hexLoop(_, _)
hexLoop(dst, src) ==
  IF src = <<>> THEN dst
  ELSE hexLoop(dst \o <<HexHi(Head(src)), HexLo(Head(src))>>, Tail(src))

hexEncode(dst, src) == hexLoop(dst \o <<"0", "x">>, src)

\* --------------------------------------------- strconv (Go standard library)
RECURSIVE AppendUint(_, _)
AppendUint(b, v) ==
  IF v < 10 THEN b \o <<hextable[v + 1]>>
  ELSE AppendUint(b, v \div 10) \o <<hextable[(v % 10) + 1]>>

AppendInt(b, v) == IF v < 0 THEN AppendUint(b \o <<"-">>, 0 - v) ELSE AppendUint(b, v)

\* --------------------------------------------------------------- the state
VARIABLES
  obj,       \* obj[i]: the fields of encoder instance i (kind "none": not allocated)
  mem,       \* mem[a]: the contents of backing array a
  textPool,  \* the instances in textPool
  ansiPool,  \* the instances in ansiPool
  held,      \* held[t]: the instances goroutine t has acquired and not released
  pc,        \* pc[t]: where goroutine t stands inside the call it is making
  frame,     \* frame[t]: the locals of the call goroutine t is inside
  last       \* the last operation that ran, its arguments and what it returned

vars == <<obj, mem, textPool, ansiPool, held, pc, frame, last>>

\* ------------------------------------------------ levels, layouts and colors
DebugLevel == <<"DebugLevel">>

InfoLevel == <<"InfoLevel">>

WarnLevel == <<"WarnLevel">>

ErrorLevel == <<"ErrorLevel">>

PanicLevel == <<"PanicLevel">>

FatalLevel == <<"FatalLevel">>

\* A Level that is none of the six constants, with its integer value.
OtherLevel(v) == <<"Level", v>>

StdLevels == {DebugLevel, InfoLevel, WarnLevel, ErrorLevel, PanicLevel, FatalLevel}

RFC3339 == "2006-01-02T15:04:05Z07:00"

\* ansi.ColorCode(name): one escape sequence, kept as one token.
ColorCode(name) == <<"ESC[" \o name \o "]">>

resetColor == ColorCode("reset")

defaultColors ==
  [debugColor |-> ColorCode("green"), infoColor |-> ColorCode("green"),
   warnColor |-> ColorCode("yellow"), errorColor |-> ColorCode("red"),
   panicColor |-> ColorCode("red"), fatalColor |-> ColorCode("red")]

\* The zero value of the six color fields of a newly allocated ansiEncoder.
zeroColors ==
  [debugColor |-> <<>>, infoColor |-> <<>>, warnColor |-> <<>>,
   errorColor |-> <<>>, panicColor |-> <<>>, fatalColor |-> <<>>]

\* time.Time.AppendFormat(b, layout): the rendering of instant t under a
\* layout, kept as one token that names both.
AppendFormat(b, t, layout) == b \o <<"time(" \o ToString(t) \o ")@" \o layout>>

\* ------------------------------------------------------- the heap: slices
\* A heap H is [obj, mem].  obj[i].arr and obj[i].len are the slice enc.bytes.
Heap == [obj |-> obj, mem |-> mem]

BytesOf(H, i) == SubSeq(H.mem[H.obj[i].arr], 1, H.obj[i].len)

Bytes(i) == BytesOf(Heap, i)

\* The length of the longest slice onto array a.
Reach(o, a) ==
  LET lens == {o[i].len : i \in {j \in DOMAIN o : o[j].arr = a}}
  IN IF lens = {} THEN 0 ELSE CHOOSE n \in lens : \A m \in lens : m <= n

Clip(o, m) == [a \in DOMAIN m |-> SubSeq(m[a], 1, Reach(o, a))]

Overwrite(old, off, xs) ==
  SubSeq(old, 1, off) \o xs \o SubSeq(old, off + Len(xs) + 1, Len(old))

\* enc.bytes = append(enc.bytes, xs...)
append(H, enc, xs) ==
  LET o == H.obj[enc]
  IN [obj |-> [H.obj EXCEPT ![enc].len = o.len + Len(xs)],
      mem |-> [H.mem EXCEPT ![o.arr] = Overwrite(@, o.len, xs)]]

\* enc.bytes = enc.bytes[:0]
truncate(H, enc) ==
  LET o2 == [H.obj EXCEPT ![enc].len = 0]
  IN [obj |-> o2, mem |-> Clip(o2, H.mem)]

\* ------------------------------------------------- text_encoder.go: fields
\* addKey without the test for an opening brace.
addKey_AnyLastByte(H, enc, key) ==
  LET H1 == IF H.obj[enc].len > 0 THEN append(H, enc, <<" ">>) ELSE H
  IN append(append(H1, enc, key), enc, <<"=">>)

addKey(H, enc, key) ==
  LET b == BytesOf(H, enc)
      H1 == IF Len(b) - 1 >= 0 /\ Last(b) # "{" THEN append(H, enc, <<" ">>) ELSE H
  IN append(append(H1, enc, key), enc, <<"=">>)

AddString(H, enc, key, val) == append(addKey(H, enc, key), enc, val)

AddBool(H, enc, key, val) ==
  IF val THEN append(addKey(H, enc, key), enc, <<"t", "r", "u", "e">>)
  ELSE append(addKey(H, enc, key), enc, <<"f", "a", "l", "s", "e">>)

AddByte(H, enc, key, val) ==
  LET H1 == append(addKey(H, enc, key), enc, <<"0", "x">>)
  IN append(append(H1, enc, <<HexHi(val)>>), enc, <<HexLo(val)>>)

\* enc.bytes = f(enc.bytes, ...): f returns its first argument extended.
Extend(H, enc, grown) == append(H, enc, Suffix(grown, H.obj[enc].len))

AddBytes(H, enc, key, val) ==
  LET H1 == addKey(H, enc, key)
  IN Extend(H1, enc, hexEncode(BytesOf(H1, enc), val))

AddInt64(H, enc, key, val) ==
  LET H1 == addKey(H, enc, key)
  IN Extend(H1, enc, AppendInt(BytesOf(H1, enc), val))

AddInt(H, enc, key, val) == AddInt64(H, enc, key, val)

AddUint64(H, enc, key, val) ==
  LET H1 == addKey(H, enc, key)
  IN Extend(H1, enc, AppendUint(BytesOf(H1, enc), val))

AddUint(H, enc, key, val) == AddUint64(H, enc, key, val)

\* AddMarshaler up to the call of obj.MarshalLog(enc): addKey and '{'.
AddMarshalerOpen(H, enc, key) == append(addKey(H, enc, key), enc, <<"{">>)

\* AddMarshaler dropping what the call appended when MarshalLog fails.
AddMarshalerClose_RollsBack(H, enc, start, err) ==
  IF err # "nil"
  THEN LET o2 == [H.obj EXCEPT ![enc].len = start]
       IN [obj |-> o2, mem |-> Clip(o2, H.mem)]
  ELSE append(H, enc, <<"}">>)

\* AddMarshaler once obj.MarshalLog(enc) returned err, the call having found
\* start bytes in the buffer: '}' is appended whatever err is.
AddMarshalerClose(H, enc, start, err) == append(H, enc, <<"}">>)

\* What AddMarshaler returns: the error of obj.MarshalLog(enc).
marshalResult(err) == IF err = "nil" THEN <<"nil">> ELSE <<"error", err>>

\* ------------------------------------------------ text_encoder.go: options
TextTimeFormat(layout) == <<"TextTimeFormat", layout>>

TextNoTime == TextTimeFormat("")

TextNoName == <<"TextNoName">>

\* opt.apply(enc) for a TextOption.
apply(H, enc, opt) ==
  IF opt = TextNoName THEN [H EXCEPT !.obj[enc].noName = TRUE]
  ELSE [H EXCEPT !.obj[enc].timeFmt = opt[2]]

RECURSIVE applyAll(_, _, _)
applyAll(H, enc, options) ==
  IF options = <<>> THEN H
  ELSE applyAll(apply(H, enc, Head(options)), enc, Tail(options))

\* NewTextEncoder keeping what the instance held when it was released.
NewTextEncoder_KeepsBytes(H, enc, options) ==
  applyAll([H EXCEPT !.obj[enc].timeFmt = RFC3339], enc, options)

\* NewTextEncoder after textPool.Get() returned enc.
NewTextEncoder(H, enc, options) ==
  LET H1 == truncate(H, enc)
      H2 == [H1 EXCEPT !.obj[enc].timeFmt = RFC3339]
  IN applyAll(H2, enc, options)

\* NewANSIEncoder after ansiPool.Get() returned enc; every ANSIOption of the
\* source is AnsiTextOption(to), which applies to to the embedded textEncoder.
NewANSIEncoder(H, enc, options) ==
  LET H1 == truncate(H, enc)
      H2 == [H1 EXCEPT !.obj[enc].timeFmt = RFC3339]
      H3 == [H2 EXCEPT !.obj[enc].colors = defaultColors]
  IN applyAll(H3, enc, options)

\* Clone taking the source's slice (clone.bytes = enc.bytes) for the copy.
textClone_SharesArray(H, enc, clone) ==
  LET o2 == [H.obj EXCEPT ![clone].arr = H.obj[enc].arr,
                          ![clone].len = H.obj[enc].len,
                          ![clone].timeFmt = H.obj[enc].timeFmt]
  IN [obj |-> o2, mem |-> Clip(o2, H.mem)]

\* textEncoder.Clone after textPool.Get() returned clone.
textClone(H, enc, clone) ==
  LET H1 == truncate(H, clone)
      H2 == append(H1, clone, BytesOf(H1, enc))
  IN [H2 EXCEPT !.obj[clone].timeFmt = H2.obj[enc].timeFmt]

\* ansiEncoder.Clone after ansiPool.Get() returned clone.
ansiClone(H, enc, clone) ==
  LET H1 == truncate(H, clone)
      H2 == append(H1, clone, BytesOf(H1, enc))
      H3 == [H2 EXCEPT !.obj[clone].timeFmt = H2.obj[enc].timeFmt]
  IN [H3 EXCEPT !.obj[clone].colors = H3.obj[enc].colors]

\* ---------------------------------------------- text_encoder.go: the entry
addLevel(H, enc, final, lvl) ==
  LET H1 == append(H, final, <<"[">>)
      H2 == CASE lvl = DebugLevel -> append(H1, final, <<"D">>)
              [] lvl = InfoLevel -> append(H1, final, <<"I">>)
              [] lvl = WarnLevel -> append(H1, final, <<"W">>)
              [] lvl = ErrorLevel -> append(H1, final, <<"E">>)
              [] lvl = PanicLevel -> append(H1, final, <<"P">>)
              [] lvl = FatalLevel -> append(H1, final, <<"F">>)
              [] OTHER -> Extend(H1, final, AppendInt(BytesOf(H1, final), lvl[2]))
  IN append(H2, final, <<"]">>)

addTime(H, enc, final, t) ==
  IF H.obj[enc].timeFmt = "" THEN H
  ELSE LET H1 == append(H, final, <<" ">>)
       IN Extend(H1, final, AppendFormat(BytesOf(H1, final), t, H.obj[enc].timeFmt))

\* addName that leaves the separator behind when the name is suppressed.
addName_StraySeparator(H, enc, final, name) ==
  IF name = <<>> THEN H
  ELSE IF H.obj[enc].noName THEN append(H, final, <<" ">>)
  ELSE append(append(H, final, <<" ">>), final, name)

addName(H, enc, final, name) ==
  IF name = <<>> \/ H.obj[enc].noName THEN H
  ELSE append(append(H, final, <<" ">>), final, name)

addMessage(H, enc, final, msg) == append(append(H, final, <<" ">>), final, msg)

\* textEncoder.WriteEntry from addLevel to the newline.
textAssemble(H, enc, final, name, msg, lvl, t) ==
  LET H2 == addLevel(H, enc, final, lvl)
      H3 == addTime(H2, enc, final, t)
      H4 == addName(H3, enc, final, name)
      H5 == addMessage(H4, enc, final, msg)
      H6 == IF H5.obj[enc].len > 0
            THEN append(append(H5, final, <<" ">>), final, BytesOf(H5, enc))
            ELSE H5
  IN append(H6, final, <<"\n">>)

\* ---------------------------------------------- ansi_encoder.go: the entry
addLevelColor(H, enc, final, lvl) ==
  CASE lvl = DebugLevel -> append(H, final, H.obj[enc].colors.debugColor)
    [] lvl = InfoLevel -> append(H, final, H.obj[enc].colors.infoColor)
    [] lvl = WarnLevel -> append(H, final, H.obj[enc].colors.warnColor)
    [] lvl = ErrorLevel -> append(H, final, H.obj[enc].colors.errorColor)
    [] lvl = PanicLevel -> append(H, final, H.obj[enc].colors.panicColor)
    [] lvl = FatalLevel -> append(H, final, H.obj[enc].colors.fatalColor)
    [] OTHER -> H

\* clearLevelColor appending the reset code for every level.
clearLevelColor_AnyLevel(H, enc, final, lvl) == append(H, final, resetColor)

clearLevelColor(H, enc, final, lvl) ==
  IF lvl \in StdLevels THEN append(H, final, resetColor) ELSE H

\* ansiEncoder.WriteEntry from addLevelColor to the newline.
ansiAssemble(H, enc, final, name, msg, lvl, t) ==
  LET H2 == addLevelColor(H, enc, final, lvl)
      H3 == addLevel(H2, enc, final, lvl)
      H4 == addTime(H3, enc, final, t)
      H5 == addName(H4, enc, final, name)
      H6 == addMessage(H5, enc, final, msg)
      H7 == IF H6.obj[enc].len > 0
            THEN append(append(H6, final, <<" ">>), final, BytesOf(H6, enc))
            ELSE H6
      H8 == clearLevelColor(H7, enc, final, lvl)
  IN append(H8, final, <<"\n">>)

\* WriteEntry emptying the accumulator once it has copied the fields.
assemble_ConsumesFields(H, enc, final, name, msg, lvl, t) ==
  truncate(IF H.obj[enc].kind = "ansi"
           THEN ansiAssemble(H, enc, final, name, msg, lvl, t)
           ELSE textAssemble(H, enc, final, name, msg, lvl, t), enc)

\* The WriteEntry of enc's dynamic type (Encoder is an interface).
assemble(H, enc, final, name, msg, lvl, t) ==
  IF H.obj[enc].kind = "ansi" THEN ansiAssemble(H, enc, final, name, msg, lvl, t)
  ELSE textAssemble(H, enc, final, name, msg, lvl, t)

\* WriteEntry reporting an incomplete write only when n is below the length.
writeResult_OnlyShort(n, err, expectedBytes) ==
  IF err # "nil" THEN <<"error", err>>
  ELSE IF n < expectedBytes THEN <<"incomplete write", n, expectedBytes>>
  ELSE <<"nil">>

\* What WriteEntry returns once sink.Write returned (n, err).
writeResult(n, err, expectedBytes) ==
  IF err # "nil" THEN <<"error", err>>
  ELSE IF n # expectedBytes THEN <<"incomplete write", n, expectedBytes>>
  ELSE <<"nil">>

errNilSink == <<"errNilSink">>

\* ------------------------------------------------------------- sync.Pool
\* The object a pool's New function returns: zero fields, an empty slice
\* onto an array of its own.
zeroObj(i, k) ==
  [kind |-> k, arr |-> i, len |-> 0, timeFmt |-> "", noName |-> FALSE,
   colors |-> zeroColors]

\* The instances a run may still allocate: obj holds them with kind "none".
Unallocated == {i \in DOMAIN obj : obj[i].kind = "none"}

\* pool.Get() returns an instance of the pool or, at any time, New().
Get(pool) ==
  pool \cup (IF Unallocated = {} THEN {}
             ELSE {CHOOSE i \in Unallocated : \A j \in Unallocated : i <= j})

\* The heap once Get returned i: New() ran if i was not allocated.
Got(i, k) ==
  IF obj[i].kind = "none" THEN [Heap EXCEPT !.obj[i] = zeroObj(i, k)] ELSE Heap

\* pool.Put(i)
Put(pool, i) == pool \cup {i}

\* WriteEntry returning the sink's error before it frees final.
finalFree_AfterErrorCheck(pool, final, err) ==
  IF err # "nil" THEN pool ELSE Put(pool, final)

\* final.Free() in WriteEntry, which runs before err is looked at.
finalFree(pool, final, err) == Put(pool, final)

\* ------------------------------------------------------------ bookkeeping
NoFrame ==
  [enc |-> 0, final |-> 0, sink |-> [isNil |-> TRUE, d |-> 0, err |-> "nil"],
   name |-> <<>>, msg |-> <<>>, lvl |-> InfoLevel, t |-> 0,
   line |-> <<>>, n |-> 0, err |-> "nil", expectedBytes |-> 0]

Ran(op, t, enc, out, args, line, writes, res) ==
  [op |-> op, t |-> t, enc |-> enc, out |-> out, args |-> args, line |-> line,
   writes |-> writes, res |-> res]

Idle(t) == pc[t] = "idle"

\* Nothing is allocated yet; ids are the instances the run may allocate.
Empty(ids) ==
  /\ obj = [i \in ids |-> zeroObj(i, "none")]
  /\ mem = [a \in ids |-> <<>>]
  /\ textPool = {}
  /\ ansiPool = {}
  /\ held = [t \in Threads |-> {}]
  /\ pc = [t \in Threads |-> "idle"]
  /\ frame = [t \in Threads |-> NoFrame]
  /\ last = Ran("init", 0, 0, 0, <<>>, <<>>, 0, <<"nil">>)

Init == Empty(SeqInst)

\* ------------------------------------------------------------- operations
\* An acquire records in last.line the bytes the instance held when the pool
\* handed it out.
DoNewTextEncoder(t, options) ==
  /\ Idle(t)
  /\ \E enc \in Get(textPool) :
       LET H == NewTextEncoder(Got(enc, "text"), enc, options)
       IN /\ obj' = H.obj
          /\ mem' = H.mem
          /\ textPool' = textPool \ {enc}
          /\ held' = [held EXCEPT ![t] = @ \cup {enc}]
          /\ last' = Ran("NewTextEncoder", t, 0, enc, options, Bytes(enc), 0, <<"nil">>)
  /\ UNCHANGED <<ansiPool, pc, frame>>

DoNewANSIEncoder(t, options) ==
  /\ Idle(t)
  /\ \E enc \in Get(ansiPool) :
       LET H == NewANSIEncoder(Got(enc, "ansi"), enc, options)
       IN /\ obj' = H.obj
          /\ mem' = H.mem
          /\ ansiPool' = ansiPool \ {enc}
          /\ held' = [held EXCEPT ![t] = @ \cup {enc}]
          /\ last' = Ran("NewANSIEncoder", t, 0, enc, options, Bytes(enc), 0, <<"nil">>)
  /\ UNCHANGED <<textPool, pc, frame>>

\* enc.Free() of enc's dynamic type.
DoFree(t, enc) ==
  /\ Idle(t)
  /\ enc \in held[t]
  /\ IF obj[enc].kind = "ansi"
     THEN ansiPool' = Put(ansiPool, enc) /\ UNCHANGED textPool
     ELSE textPool' = Put(textPool, enc) /\ UNCHANGED ansiPool
  /\ held' = [held EXCEPT ![t] = @ \ {enc}]
  /\ last' = Ran("Free", t, enc, 0, <<>>, <<>>, 0, <<"nil">>)
  /\ UNCHANGED <<obj, mem, pc, frame>>

\* enc.Clone() of enc's dynamic type.
DoClone(t, enc) ==
  /\ Idle(t)
  /\ enc \in held[t]
  /\ LET k == obj[enc].kind
     IN \E clone \in Get(IF k = "ansi" THEN ansiPool ELSE textPool) :
          LET H == IF k = "ansi" THEN ansiClone(Got(clone, k), enc, clone)
                   ELSE textClone(Got(clone, k), enc, clone)
          IN /\ obj' = H.obj
             /\ mem' = H.mem
             /\ textPool' = textPool \ {clone}
             /\ ansiPool' = ansiPool \ {clone}
             /\ held' = [held EXCEPT ![t] = @ \cup {clone}]
             /\ last' = Ran("Clone", t, enc, clone, <<>>, <<>>, 0, <<"nil">>)
  /\ UNCHANGED <<pc, frame>>

\* enc.Add<Type>(key, val): the method the field's type selects.
AddField(H, enc, typ, key, val) ==
  CASE typ = "String" -> AddString(H, enc, key, val)
    [] typ = "Bool" -> AddBool(H, enc, key, val)
    [] typ = "Byte" -> AddByte(H, enc, key, val)
    [] typ = "Bytes" -> AddBytes(H, enc, key, val)
    [] typ = "Int" -> AddInt(H, enc, key, val)
    [] typ = "Int64" -> AddInt64(H, enc, key, val)
    [] typ = "Uint" -> AddUint(H, enc, key, val)
    [] typ = "Uint64" -> AddUint64(H, enc, key, val)

DoAdd(t, enc, typ, key, val) ==
  /\ Idle(t)
  /\ enc \in held[t]
  /\ LET H == AddField(Heap, enc, typ, key, val)
     IN /\ obj' = H.obj
        /\ mem' = H.mem
  /\ last' = Ran("Add", t, enc, 0, <<typ, key, val>>, <<>>, 0, <<"nil">>)
  /\ UNCHANGED <<textPool, ansiPool, held, pc, frame>>

\* ----------------------------------------------------------- AddMarshaler
\* A LogMarshaler is [ops, err]: its MarshalLog(enc) makes the Add calls ops
\* on enc, in order, and returns err.  An op is <<type, key, value>>; the value
\* of a "Marshaler" op is the LogMarshaler handed to enc.AddMarshaler.
\* While goroutine t is inside AddMarshaler, frame[t] is [enc, stack]: one
\* entry per AddMarshaler call that has not returned, the innermost last,
\* with the call's arguments, the length of the buffer at the call, the ops
\* its MarshalLog has still to make, and the index of the '{' it appended.
MarshalCall(H, enc, key, m) ==
  [key |-> key, m |-> m, start |-> H.obj[enc].len, rest |-> m.ops,
   open |-> AddMarshalerOpen(H, enc, key).obj[enc].len]

Top(t) == Last(frame[t].stack)

Front(st) == SubSeq(st, 1, Len(st) - 1)

\* enc.AddMarshaler(key, m), called by the holder of enc: lines 128-130.
AMCall(t, enc, key, m) ==
  /\ Idle(t)
  /\ enc \in held[t]
  /\ LET H == AddMarshalerOpen(Heap, enc, key)
     IN /\ obj' = H.obj
        /\ mem' = H.mem
  /\ pc' = [pc EXCEPT ![t] = "marshal"]
  /\ frame' = [frame EXCEPT ![t] =
       [enc |-> enc, stack |-> <<MarshalCall(Heap, enc, key, m)>>]]
  /\ last' = Ran("AddMarshaler.call", t, enc, 0, <<key, m>>, <<>>, 0, <<"nil">>)
  /\ UNCHANGED <<textPool, ansiPool, held>>

\* The running MarshalLog makes its next call, a scalar Add<Type>.
AMField(t) ==
  /\ pc[t] = "marshal"
  /\ Top(t).rest # <<>>
  /\ Head(Top(t).rest)[1] # "Marshaler"
  /\ LET enc == frame[t].enc
         op == Head(Top(t).rest)
         H == AddField(Heap, enc, op[1], op[2], op[3])
     IN /\ obj' = H.obj
        /\ mem' = H.mem
        /\ frame' = [frame EXCEPT ![t].stack =
             Front(@) \o <<[Top(t) EXCEPT !.rest = Tail(@)]>>]
        /\ last' = Ran("Add", t, enc, 0, op, <<>>, 0, <<"nil">>)
  /\ UNCHANGED <<textPool, ansiPool, held, pc>>

\* The running MarshalLog makes its next call, enc.AddMarshaler(key, m).
AMNested(t) ==
  /\ pc[t] = "marshal"
  /\ Top(t).rest # <<>>
  /\ Head(Top(t).rest)[1] = "Marshaler"
  /\ LET enc == frame[t].enc
         op == Head(Top(t).rest)
         H == AddMarshalerOpen(Heap, enc, op[2])
     IN /\ obj' = H.obj
        /\ mem' = H.mem
        /\ frame' = [frame EXCEPT ![t].stack =
             Front(@) \o <<[Top(t) EXCEPT !.rest = Tail(@)],
                           MarshalCall(Heap, enc, op[2], op[3])>>]
        /\ last' = Ran("AddMarshaler.call", t, enc, 0, <<op[2], op[3]>>, <<>>, 0,
                       <<"nil">>)
  /\ UNCHANGED <<textPool, ansiPool, held, pc>>

\* The running MarshalLog returns its error; AddMarshaler appends '}' and
\* returns that error to its caller: lines 130-132.
AMReturn(t) ==
  /\ pc[t] = "marshal"
  /\ Top(t).rest = <<>>
  /\ LET enc == frame[t].enc
         c == Top(t)
         H == AddMarshalerClose(Heap, enc, c.start, c.m.err)
     IN /\ obj' = H.obj
        /\ mem' = H.mem
        /\ last' = Ran("AddMarshaler", t, enc, 0, <<c.key, c.m>>, <<>>, 0,
                       marshalResult(c.m.err))
  /\ IF Len(frame[t].stack) = 1
     THEN /\ pc' = [pc EXCEPT ![t] = "idle"]
          /\ frame' = [frame EXCEPT ![t] = NoFrame]
     ELSE /\ frame' = [frame EXCEPT ![t].stack = Front(@)]
          /\ UNCHANGED pc
  /\ UNCHANGED <<textPool, ansiPool, held>>

\* ------------------------------------------------------------- WriteEntry
\* A sink is nil, or an io.Writer whose Write(p) returns (len(p) + d, err).
NilSink == [isNil |-> TRUE, d |-> 0, err |-> "nil"]

Writer(d, err) == [isNil |-> FALSE, d |-> d, err |-> err]

\* WriteEntry taking final from the pool before it looks at the sink.
DoWriteEntry_GetsBeforeNilCheck(t, enc, sink, name, msg, lvl, tm) ==
  /\ Idle(t)
  /\ enc \in held[t]
  /\ \E final \in Get(textPool) :
       IF sink.isNil
       THEN LET H == truncate(Got(final, "text"), final)
            IN /\ obj' = H.obj
               /\ mem' = H.mem
               /\ textPool' = textPool \ {final}
               /\ last' = Ran("WriteEntry", t, enc, 0, <<sink, name, msg, lvl, tm>>,
                              <<>>, 0, errNilSink)
       ELSE LET H == assemble(truncate(Got(final, "text"), final),
                              enc, final, name, msg, lvl, tm)
                expectedBytes == H.obj[final].len
                n == expectedBytes + sink.d
            IN /\ obj' = H.obj
               /\ mem' = H.mem
               /\ textPool' = finalFree(textPool \ {final}, final, sink.err)
               /\ last' = Ran("WriteEntry", t, enc, final,
                              <<sink, name, msg, lvl, tm>>, BytesOf(H, final), 1,
                              writeResult(n, sink.err, expectedBytes))
  /\ UNCHANGED <<ansiPool, held, pc, frame>>

\* enc.WriteEntry(sink, name, msg, lvl, tm) of enc's dynamic type, run by one
\* goroutine from call to return.
DoWriteEntry(t, enc, sink, name, msg, lvl, tm) ==
  /\ Idle(t)
  /\ enc \in held[t]
  /\ IF sink.isNil
     THEN /\ last' = Ran("WriteEntry", t, enc, 0, <<sink, name, msg, lvl, tm>>,
                         <<>>, 0, errNilSink)
          /\ UNCHANGED <<obj, mem, textPool>>
     ELSE \E final \in Get(textPool) :
            LET H == assemble(truncate(Got(final, "text"), final),
                              enc, final, name, msg, lvl, tm)
                expectedBytes == H.obj[final].len
                n == expectedBytes + sink.d
            IN /\ obj' = H.obj
               /\ mem' = H.mem
               /\ textPool' = finalFree(textPool \ {final}, final, sink.err)
               /\ last' = Ran("WriteEntry", t, enc, final,
                              <<sink, name, msg, lvl, tm>>, BytesOf(H, final), 1,
                              writeResult(n, sink.err, expectedBytes))
  /\ UNCHANGED <<ansiPool, held, pc, frame>>

\* WriteEntry working in a buffer that stays in the pool for others to take.
WEBegin_LeavesFinalInPool(t, enc, sink, name, msg, lvl, tm) ==
  /\ Idle(t)
  /\ enc \in held[t]
  /\ IF sink.isNil
     THEN /\ last' = Ran("WriteEntry", t, enc, 0, <<sink, name, msg, lvl, tm>>,
                         <<>>, 0, errNilSink)
          /\ UNCHANGED <<obj, mem, textPool, held, pc, frame>>
     ELSE \E final \in Get(textPool) :
            LET H == truncate(Got(final, "text"), final)
            IN /\ obj' = H.obj
               /\ mem' = H.mem
               /\ textPool' = textPool \cup {final}
               /\ held' = [held EXCEPT ![t] = @ \cup {final}]
               /\ pc' = [pc EXCEPT ![t] = "assemble"]
               /\ frame' = [frame EXCEPT ![t] =
                    [NoFrame EXCEPT !.enc = enc, !.final = final, !.sink = sink,
                                    !.name = name, !.msg = msg, !.lvl = lvl, !.t = tm]]
               /\ last' = Ran("WriteEntry.Get", t, enc, final,
                              <<sink, name, msg, lvl, tm>>, <<>>, 0, <<"nil">>)
  /\ UNCHANGED ansiPool

\* The same call, goroutine t advancing one part at a time:
\* the nil check, textPool.Get() and final.truncate();
WEBegin(t, enc, sink, name, msg, lvl, tm) ==
  /\ Idle(t)
  /\ enc \in held[t]
  /\ IF sink.isNil
     THEN /\ last' = Ran("WriteEntry", t, enc, 0, <<sink, name, msg, lvl, tm>>,
                         <<>>, 0, errNilSink)
          /\ UNCHANGED <<obj, mem, textPool, held, pc, frame>>
     ELSE \E final \in Get(textPool) :
            LET H == truncate(Got(final, "text"), final)
            IN /\ obj' = H.obj
               /\ mem' = H.mem
               /\ textPool' = textPool \ {final}
               /\ held' = [held EXCEPT ![t] = @ \cup {final}]
               /\ pc' = [pc EXCEPT ![t] = "assemble"]
               /\ frame' = [frame EXCEPT ![t] =
                    [NoFrame EXCEPT !.enc = enc, !.final = final, !.sink = sink,
                                    !.name = name, !.msg = msg, !.lvl = lvl, !.t = tm]]
               /\ last' = Ran("WriteEntry.Get", t, enc, final,
                              <<sink, name, msg, lvl, tm>>, <<>>, 0, <<"nil">>)
  /\ UNCHANGED ansiPool

\* the appends that build the line in final.bytes;
WEAssemble(t) ==
  /\ pc[t] = "assemble"
  /\ LET f == frame[t]
         H == assemble(Heap, f.enc, f.final, f.name, f.msg, f.lvl, f.t)
     IN /\ obj' = H.obj
        /\ mem' = H.mem
        /\ frame' = [frame EXCEPT ![t].expectedBytes = H.obj[f.final].len]
        /\ last' = Ran("WriteEntry.assemble", t, f.enc, f.final, <<>>, <<>>, 0, <<"nil">>)
  /\ pc' = [pc EXCEPT ![t] = "write"]
  /\ UNCHANGED <<textPool, ansiPool, held>>

\* WriteEntry freeing final before it hands final.bytes to the sink.
WEWrite_FreesFirst(t) ==
  /\ pc[t] = "write"
  /\ LET f == frame[t]
     IN /\ frame' = [frame EXCEPT ![t].line = Bytes(f.final),
                                  ![t].n = Len(Bytes(f.final)) + f.sink.d,
                                  ![t].err = f.sink.err]
        /\ textPool' = Put(textPool, f.final)
        /\ last' = Ran("WriteEntry.Write", t, f.enc, f.final, <<>>, Bytes(f.final),
                       1, <<"nil">>)
  /\ pc' = [pc EXCEPT ![t] = "free"]
  /\ UNCHANGED <<obj, mem, ansiPool, held>>

\* n, err := sink.Write(final.bytes);
WEWrite(t) ==
  /\ pc[t] = "write"
  /\ LET f == frame[t]
     IN /\ frame' = [frame EXCEPT ![t].line = Bytes(f.final),
                                  ![t].n = Len(Bytes(f.final)) + f.sink.d,
                                  ![t].err = f.sink.err]
        /\ last' = Ran("WriteEntry.Write", t, f.enc, f.final, <<>>, Bytes(f.final),
                       1, <<"nil">>)
  /\ pc' = [pc EXCEPT ![t] = "free"]
  /\ UNCHANGED <<obj, mem, textPool, ansiPool, held>>

\* final.Free() and the return.
WEReturn(t) ==
  /\ pc[t] = "free"
  /\ LET f == frame[t]
     IN /\ textPool' = finalFree(textPool, f.final, f.err)
        /\ held' = [held EXCEPT ![t] = @ \ {f.final}]
        /\ last' = Ran("WriteEntry", t, f.enc, f.final,
                       <<f.sink, f.name, f.msg, f.lvl, f.t>>, f.line, 1,
                       writeResult(f.n, f.err, f.expectedBytes))
  /\ pc' = [pc EXCEPT ![t] = "idle"]
  /\ frame' = [frame EXCEPT ![t] = NoFrame]
  /\ UNCHANGED <<obj, mem, ansiPool>>

\* ----------------------------------------- the sequential specification
\* One caller; every operation runs from call to return.
Caller == {1}

Keys == {<<"k">>}

Options == {<<>>, <<TextNoName>>}

Fields == {<<"String", <<"a">>>>}

\* The four outcomes: nil sink, success, short write, sink error.
Sinks == {NilSink, Writer(0, "nil"), Writer(-1, "nil"), Writer(0, "EIO")}

Names == {<<"n">>}

Messages == {<<"m">>}

Levels == {InfoLevel}

Times == {0}

Next ==
  \E t \in Caller :
    \/ \E o \in Options : DoNewTextEncoder(t, o)
    \/ \E o \in Options : DoNewANSIEncoder(t, o)
    \/ \E e \in SeqInst : DoFree(t, e)
    \/ \E e \in SeqInst : DoClone(t, e)
    \/ \E e \in SeqInst, f \in Fields, k \in Keys :
         obj[e].len < MaxBuf /\ DoAdd(t, e, f[1], k, f[2])
    \/ \E e \in SeqInst, s \in Sinks, n \in Names, m \in Messages, l \in Levels,
          tm \in Times : DoWriteEntry(t, e, s, n, m, l, tm)

Spec == Init /\ [][Next]_vars

\* ------------------------------------------------ the fields specification
\* One encoder, as NewTextEncoder or NewANSIEncoder returns it, and every
\* Add<Type> on it with keys and values of every type.
FieldKeys == {<<>>, <<"k">>}

AllFields ==
  {<<"String", v>> : v \in {<<>>, <<"a">>, <<" ">>, <<"{">>, <<"}">>}}
  \cup {<<"Bool", v>> : v \in BOOLEAN}
  \cup {<<"Byte", v>> : v \in {0, 171, 255}}
  \cup {<<"Bytes", v>> : v \in {<<>>, <<171>>, <<1, 255>>}}
  \cup {<<"Int", v>> : v \in {-7, 0}}
  \cup {<<"Int64", v>> : v \in {-130, 42}}
  \cup {<<"Uint", v>> : v \in {0, 9}}
  \cup {<<"Uint64", v>> : v \in {10, 305}}

RECURSIVE addAll(_, _, _)
addAll(H, enc, fields) ==
  IF fields = <<>> THEN H
  ELSE addAll(AddField(H, enc, Head(fields)[1], Head(fields)[2], Head(fields)[3]),
              enc, Tail(fields))

\* The caller holds instance 1, acquired with the options as a new instance
\* of kind k, and has added the fields to it.
Drawn(k, options, fields) ==
  LET Z == [obj |-> [i \in SeqInst |-> zeroObj(i, IF i = 1 THEN k ELSE "none")],
            mem |-> [a \in SeqInst |-> <<>>]]
      N == IF k = "ansi" THEN NewANSIEncoder(Z, 1, options)
           ELSE NewTextEncoder(Z, 1, options)
      H == addAll(N, 1, fields)
  IN /\ obj = H.obj
     /\ mem = H.mem
     /\ textPool = {}
     /\ ansiPool = {}
     /\ held = [t \in Threads |-> IF t = 1 THEN {1} ELSE {}]
     /\ pc = [t \in Threads |-> "idle"]
     /\ frame = [t \in Threads |-> NoFrame]
     /\ last = Ran("init", 0, 0, 0, <<>>, <<>>, 0, <<"nil">>)

InitFields == \E k \in {"text", "ansi"} : Drawn(k, <<>>, <<>>)

NextFields ==
  \E f \in AllFields, k \in FieldKeys :
    obj[1].len < MaxFieldBuf /\ DoAdd(1, 1, f[1], k, f[2])

SpecFields == InitFields /\ [][NextFields]_vars

\* ------------------------------------------------- the entry specification
\* One encoder of either kind, with any options and with or without fields,
\* and one entry written with it, for every level, name, message, instant
\* and sink.
EntryOptions ==
  {<<>>, <<TextNoName>>, <<TextNoTime>>, <<TextTimeFormat("15:04")>>,
   <<TextNoName, TextNoTime>>, <<TextNoTime, TextTimeFormat("15:04")>>}

EntryFields == {<<>>, <<<<"String", <<"k">>, <<"a">>>>>>}

EntrySinks ==
  {NilSink} \cup {Writer(d, e) : d \in {-1, 0, 1}, e \in {"nil", "EIO"}}

EntryNames == {<<>>, <<"n">>}

EntryMessages == {<<>>, <<"m">>}

EntryLevels == StdLevels \cup {OtherLevel(-3), OtherLevel(7), OtherLevel(12)}

EntryTimes == {0, 1}

InitEntry ==
  \E k \in {"text", "ansi"}, o \in EntryOptions, fs \in EntryFields : Drawn(k, o, fs)

NextEntry ==
  \E s \in EntrySinks, n \in EntryNames, m \in EntryMessages, l \in EntryLevels,
     tm \in EntryTimes :
    last.op = "init" /\ DoWriteEntry(1, 1, s, n, m, l, tm)

SpecEntry == InitEntry /\ [][NextEntry]_vars

\* ------------------------------------------------- the clone specification
\* Encoders of both kinds acquired, cloned, extended with differing fields
\* and released.
CloneFields == {<<"String", <<"a">>>>, <<"String", <<"b">>>>}

NextClone ==
  \E t \in Caller :
    \/ DoNewTextEncoder(t, <<>>)
    \/ DoNewANSIEncoder(t, <<>>)
    \/ \E e \in SeqInst : DoFree(t, e)
    \/ \E e \in SeqInst : DoClone(t, e)
    \/ \E e \in SeqInst, f \in CloneFields, k \in Keys :
         obj[e].len < MaxFieldBuf /\ DoAdd(t, e, f[1], k, f[2])

SpecClone == Init /\ [][NextClone]_vars

\* ---------------------------------------------- the marshaler specification
\* One encoder of either kind; scalar fields and marshalers are added to it,
\* the marshalers nesting up to three deep, succeeding or failing, with
\* string values that may be "{".
MarshalErrors == {"nil", "EMarshal"}

LeafOps ==
  {<<"String", <<"a">>, <<"1">>>>, <<"String", <<"a">>, <<"{">>>>,
   <<"Int", <<"b">>, -7>>}

\* The op sequences of up to two ops over A.
OpSeqs(A) == {<<>>} \cup {<<x>> : x \in A} \cup {<<x, y>> : x \in A, y \in A}

Marshaling(m) == <<"Marshaler", <<"o">>, m>>

Flat == {[ops |-> s, err |-> e] : s \in OpSeqs(LeafOps), e \in MarshalErrors}

Nested ==
  {[ops |-> s, err |-> e] :
     s \in OpSeqs(LeafOps \cup {Marshaling(m) : m \in {f \in Flat : Len(f.ops) <= 1}}),
     e \in MarshalErrors}

Deep ==
  {[ops |-> <<Marshaling(m)>>, err |-> e] :
     m \in {n \in Nested : Len(n.ops) = 1 /\ n.ops[1][1] = "Marshaler"},
     e \in MarshalErrors}

Marshalers == Flat \cup Nested \cup Deep

NextMarshal ==
  \/ \E f \in LeafOps : obj[1].len < MaxFieldBuf /\ DoAdd(1, 1, f[1], f[2], f[3])
  \/ \E m \in Marshalers : obj[1].len < MaxFieldBuf /\ AMCall(1, 1, <<"o">>, m)
  \/ AMField(1)
  \/ AMNested(1)
  \/ AMReturn(1)

SpecMarshal == InitFields /\ [][NextMarshal]_vars

\* --------------------------------------------------- the hex specification
\* hexEncode applied to destination buffers and byte sequences, and AddByte
\* and AddBytes applied to an empty encoder: every byte value alone, and
\* longer sequences over bytes with equal and with differing nibbles.
HexSample == {0, 10, 171, 255}

HexSources ==
  {<<>>} \cup {<<v>> : v \in 0..255}
    \cup UNION {[1..n -> HexSample] : n \in 2..MaxHexLen}

HexDests == {<<>>, <<"k", "=">>, <<"0", "x", "A">>}

\* A call hexEncode(dst, src); last.line is the slice it returns.
DoHexEncode(dst, src) ==
  /\ last' = Ran("hexEncode", 0, 0, 0, <<dst, src>>, hexEncode(dst, src), 0, <<"nil">>)
  /\ UNCHANGED <<obj, mem, textPool, ansiPool, held, pc, frame>>

\* One call from the initial state, for every input.
NextHex ==
  \/ \E dst \in HexDests, src \in HexSources :
       last.op = "init" /\ DoHexEncode(dst, src)
  \/ \E v \in 0..255 : last.op = "init" /\ DoAdd(1, 1, "Byte", <<"k">>, v)
  \/ \E src \in HexSources : last.op = "init" /\ DoAdd(1, 1, "Bytes", <<"k">>, src)

SpecHex == InitFields /\ [][NextHex]_vars

\* -------------------------------------------- the concurrent specification
\* Several goroutines acquire, clone, write entries and release; a WriteEntry
\* call advances part by part, so that calls interleave.
NextConc ==
  \E t \in Threads :
    \/ DoNewTextEncoder(t, <<>>)
    \/ DoNewANSIEncoder(t, <<>>)
    \/ \E e \in Inst : DoFree(t, e)
    \/ \E e \in Inst : DoClone(t, e)
    \/ \E e \in Inst, s \in {NilSink, Writer(0, "nil")}, n \in Names, m \in Messages,
          l \in Levels, tm \in Times : WEBegin(t, e, s, n, m, l, tm)
    \/ WEAssemble(t)
    \/ WEWrite(t)
    \/ WEReturn(t)

InitConc == Empty(Inst)

SpecConc == InitConc /\ [][NextConc]_vars

\* ------------------------------------------- the shared-encoder specification
\* One encoder of either kind, with or without a field, that every goroutine
\* has a reference to; the goroutines write entries with it at the same
\* time, each call advancing part by part, and nobody adds to it or frees it.
SharedFields == {<<>>, <<<<"String", <<"k">>, <<"a">>>>>>}

SharedMessages == {<<"m">>, <<"w">>}

SharedLevels == {InfoLevel, OtherLevel(7)}

InitShared ==
  \E k \in {"text", "ansi"}, fs \in SharedFields :
    LET Z == [obj |-> [i \in Inst |-> zeroObj(i, IF i = 1 THEN k ELSE "none")],
              mem |-> [a \in Inst |-> <<>>]]
        N == IF k = "ansi" THEN NewANSIEncoder(Z, 1, <<>>)
             ELSE NewTextEncoder(Z, 1, <<>>)
        H == addAll(N, 1, fs)
    IN /\ obj = H.obj
       /\ mem = H.mem
       /\ textPool = {}
       /\ ansiPool = {}
       /\ held = [t \in Threads |-> {1}]
       /\ pc = [t \in Threads |-> "idle"]
       /\ frame = [t \in Threads |-> NoFrame]
       /\ last = Ran("init", 0, 0, 0, <<>>, <<>>, 0, <<"nil">>)

NextShared ==
  \E t \in Threads :
    \/ \E m \in SharedMessages, l \in SharedLevels :
         WEBegin(t, 1, Writer(0, "nil"), <<"n">>, m, l, 0)
    \/ WEAssemble(t)
    \/ WEWrite(t)
    \/ WEReturn(t)

SpecShared == InitShared /\ [][NextShared]_vars

\* ------------------------------------------------------------------ claims
\* The text each sampled value has, written out digit by digit.
CanonicalText(typ, val) ==
  CASE typ = "String" -> val
    [] typ = "Bool" -> IF val THEN <<"t", "r", "u", "e">> ELSE <<"f", "a", "l", "s", "e">>
    [] typ = "Byte" ->
         (CASE val = 0 -> <<"0", "x", "0", "0">>
            [] val = 171 -> <<"0", "x", "A", "B">>
            [] val = 255 -> <<"0", "x", "F", "F">>)
    [] typ = "Bytes" ->
         (CASE val = <<>> -> <<"0", "x">>
            [] val = <<171>> -> <<"0", "x", "A", "B">>
            [] val = <<1, 255>> -> <<"0", "x", "0", "1", "F", "F">>)
    [] typ \in {"Int", "Int64", "Uint", "Uint64"} ->
         (CASE val = -130 -> <<"-", "1", "3", "0">>
            [] val = -7 -> <<"-", "7">>
            [] val = 0 -> <<"0">>
            [] val = 9 -> <<"9">>
            [] val = 10 -> <<"1", "0">>
            [] val = 42 -> <<"4", "2">>
            [] val = 305 -> <<"3", "0", "5">>)

\* The separator the specification gives a field added to buffer b.
Separator(b) == IF Len(b) > 0 /\ Last(b) # "{" THEN <<" ">> ELSE <<>>

\* C6 (as claimed): every field added to a non-empty buffer is preceded by a
\* separator space, which is followed by the key and '=' and so never ends the
\* buffer; string values may hold ' ', '{' and '}'.
C6_SeparatorBeforeEveryField ==
  [][last'.op = "Add" /\ Len(Bytes(last'.enc)) > 0
       => IsPrefix(Bytes(last'.enc) \o <<" ">> \o last'.args[2] \o <<"=">>,
                   BytesOf(Heap', last'.enc))]_vars

\* C7: a scalar Add<Type>(k, v) extends the buffer by exactly the separator (one
\* space if and only if the buffer was non-empty and did not end in '{'), k,
\* '=' and the text of v; the earlier bytes stay as a prefix and it returns
\* no error.
C7_AddExtendsBuffer ==
  [][last'.op = "Add"
       => /\ BytesOf(Heap', last'.enc) =
               Bytes(last'.enc) \o Separator(Bytes(last'.enc)) \o last'.args[2]
                 \o <<"=">> \o CanonicalText(last'.args[1], last'.args[3])
          /\ last'.res = <<"nil">>]_vars

\* C7 witness: a signed integer was added after a field whose value ends in '{'.
C7_Witness ==
  /\ last.op = "Add"
  /\ last.args = <<"Int64", <<"k">>, -130>>
  /\ Bytes(last.enc) = <<"k", "=", "{", "k", "=", "-", "1", "3", "0">>

\* The code of a level in the tag, written out for the sampled levels.
LevelCode(lvl) ==
  CASE lvl = DebugLevel -> <<"D">>
    [] lvl = InfoLevel -> <<"I">>
    [] lvl = WarnLevel -> <<"W">>
    [] lvl = ErrorLevel -> <<"E">>
    [] lvl = PanicLevel -> <<"P">>
    [] lvl = FatalLevel -> <<"F">>
    [] lvl = OtherLevel(-3) -> <<"-", "3">>
    [] lvl = OtherLevel(7) -> <<"7">>
    [] lvl = OtherLevel(12) -> <<"1", "2">>

\* The line of the text encoder as the specification lays it out.
TextLine(layout, suppress, fields, name, msg, lvl, tm) ==
  <<"[">> \o LevelCode(lvl) \o <<"]">>
    \o (IF layout # "" THEN AppendFormat(<<" ">>, tm, layout) ELSE <<>>)
    \o (IF name # <<>> /\ ~suppress THEN <<" ">> \o name ELSE <<>>)
    \o <<" ">> \o msg
    \o (IF fields # <<>> THEN <<" ">> \o fields ELSE <<>>)
    \o <<"\n">>

WroteTo(k) ==
  /\ last.op = "WriteEntry"
  /\ ~last.args[1].isNil
  /\ obj[last.enc].kind = k

\* C1: with a non-nil sink the text encoder hands the sink '[' level code ']',
\* then ' ' and the timestamp if the layout is non-empty, then ' ' and the name
\* if the name is non-empty and not suppressed, then ' ' and the message
\* (also when empty), then ' ' and the fields if there are any, then '\n';
\* with the name suppressed the line is the line of an empty name.
C1_TextLineLayout ==
  WroteTo("text") =>
    LET e == obj[last.enc]
        a == last.args
    IN /\ last.line = TextLine(e.timeFmt, e.noName, Bytes(last.enc),
                               a[2], a[3], a[4], a[5])
       /\ e.noName => last.line = TextLine(e.timeFmt, FALSE, Bytes(last.enc),
                                           <<>>, a[3], a[4], a[5])

\* C1 witness: a suppressed non-empty name, an empty message, an unknown
\* level, a custom layout and one field.
C1_Witness ==
  /\ WroteTo("text")
  /\ obj[last.enc].noName
  /\ last.args[2] = <<"n">>
  /\ last.args[3] = <<>>
  /\ last.args[4] = OtherLevel(-3)
  /\ last.line = <<"[", "-", "3", "]", " ", "time(1)@2006-01-02T15:04:05Z07:00",
                   " ", " ", "k", "=", "a", "\n">>

\* C2 (as claimed): a sink error is returned whatever n is; with no error the
\* call fails with the incomplete-write error when n is below the length L and
\* succeeds in every other case, n above L included.
C2_ShortWriteOnly ==
  last.op = "WriteEntry" /\ ~last.args[1].isNil =>
    LET L == Len(last.line)
        n == L + last.args[1].d
        err == last.args[1].err
    IN last.res = IF err # "nil" THEN <<"error", err>>
                  ELSE IF n < L THEN <<"incomplete write", n, L>>
                  ELSE <<"nil">>

\* C2 (amended): a sink error is returned whatever n is; with no error the
\* call fails with the incomplete-write error carrying n and L whenever n
\* differs from L, below or above, and succeeds only when n equals L.
C2_WriteResult ==
  last.op = "WriteEntry" /\ ~last.args[1].isNil =>
    LET L == Len(last.line)
        n == L + last.args[1].d
        err == last.args[1].err
    IN /\ err # "nil" => last.res = <<"error", err>>
       /\ err = "nil" /\ n # L => last.res = <<"incomplete write", n, L>>
       /\ err = "nil" /\ n = L => last.res = <<"nil">>

\* C2 witness: the ANSI encoder's sink reported no error and one byte more
\* than the line holds.
C2_Witness ==
  /\ WroteTo("ansi")
  /\ last.args[1] = Writer(1, "nil")
  /\ last.res = <<"incomplete write", Len(last.line) + 1, Len(last.line)>>

\* The formatting settings of an encoder.
Settings(o) == [timeFmt |-> o.timeFmt, noName |-> o.noName, colors |-> o.colors]

\* The settings an acquire with these options gives a newly allocated instance.
NewSettings(op, options) ==
  LET Z == [obj |-> [i \in {1} |-> zeroObj(i, "text")], mem |-> [a \in {1} |-> <<>>]]
  IN Settings((IF op = "NewANSIEncoder" THEN NewANSIEncoder(Z, 1, options)
               ELSE NewTextEncoder(Z, 1, options)).obj[1])

\* C3 (as claimed): an acquire gives the caller the same encoder whether the
\* pool recycled an instance or allocated one: an empty buffer and the
\* settings the options give a new instance, so an encoder acquired without
\* the suppress-name option renders the logger name.
C3_RecycledAsFresh ==
  last.op \in {"NewTextEncoder", "NewANSIEncoder"} =>
    /\ Bytes(last.out) = <<>>
    /\ Settings(obj[last.out]) = NewSettings(last.op, last.args)

\* C5 (as claimed): the clone has the source's timestamp layout, name
\* suppression and level colors, so both render an entry alike.
C5_CloneCopiesSettings ==
  last.op = "Clone" =>
    /\ Settings(obj[last.out]) = Settings(obj[last.enc])
    /\ TextLine(obj[last.out].timeFmt, obj[last.out].noName, Bytes(last.out),
                <<"n">>, <<"m">>, InfoLevel, 0)
         = TextLine(obj[last.enc].timeFmt, obj[last.enc].noName, Bytes(last.enc),
                    <<"n">>, <<"m">>, InfoLevel, 0)

\* The instances taken from a pool and not put back.
CheckedOut(H, k, pool) == {i \in DOMAIN H.obj : H.obj[i].kind = k} \ pool

\* C8: on every outcome WriteEntry leaves the buffer and the settings of the
\* encoders the caller holds as they were, and a second call with the same
\* arguments hands the sink the same bytes as the first.
C8_WriteEntryKeepsEncoder ==
  [][last'.op = "WriteEntry"
       => /\ held' = held
          /\ \A i \in held[last'.t] :
               /\ BytesOf(Heap', i) = Bytes(i)
               /\ Settings(obj'[i]) = Settings(obj[i])
          /\ (last.op = "WriteEntry" /\ last.enc = last'.enc /\ last.args = last'.args)
               => last'.line = last.line]_vars

\* C8 witness: a short write of an entry that carries a field.
C8_Witness ==
  /\ last.op = "WriteEntry"
  /\ last.res[1] = "incomplete write"
  /\ last.enc \in held[1]
  /\ Bytes(last.enc) = <<"k", "=", "a">>

\* C9: a WriteEntry with a non-nil sink calls the sink's Write once, with the
\* whole assembled line, and on every outcome puts the buffer it took back
\* into textPool: the instances checked out of each pool are those checked
\* out before the call.
C9_OneWriteAndRelease ==
  [][last'.op = "WriteEntry" /\ ~last'.args[1].isNil
       => /\ last'.writes = 1
          /\ last'.line = BytesOf(Heap', last'.out)
          /\ Last(last'.line) = "\n"
          /\ last'.out \in textPool'
          /\ CheckedOut(Heap', "text", textPool') = CheckedOut(Heap, "text", textPool)
          /\ CheckedOut(Heap', "ansi", ansiPool') = CheckedOut(Heap, "ansi", ansiPool)
          /\ held' = held]_vars

\* C9 witness: the sink of an ANSI encoder failed and the buffer is back.
C9_Witness ==
  /\ WroteTo("ansi")
  /\ last.res = <<"error", "EIO">>
  /\ last.out \in textPool

\* C4: at clone time the clone's buffer equals the source's, byte for byte,
\* and the source's is as it was; afterwards an Add on any held encoder
\* leaves the buffer of every other held encoder, clone or source, unchanged.
C4_CloneIsolated ==
  [][/\ last'.op = "Clone"
          => /\ BytesOf(Heap', last'.out) = Bytes(last'.enc)
             /\ BytesOf(Heap', last'.enc) = Bytes(last'.enc)
     /\ last'.op = "Add"
          => \A i \in held[last'.t] \ {last'.enc} : BytesOf(Heap', i) = Bytes(i)]_vars

\* C4 witness: a field was added to one of two encoders that had the same
\* buffer, and the other still has it.
C4_Witness ==
  /\ last.op = "Add"
  /\ Bytes(last.enc) = <<"k", "=", "a", " ", "k", "=", "b">>
  /\ \E i \in held[1] \ {last.enc} :
       /\ obj[i].kind = obj[last.enc].kind
       /\ Bytes(i) = <<"k", "=", "a">>

\* No instance has two holders, and none is held while it is in a pool.
Exclusive ==
  /\ \A t1, t2 \in Threads : t1 # t2 => held[t1] \cap held[t2] = {}
  /\ \A t \in Threads : held[t] \cap (textPool \cup ansiPool) = {}

\* C10: under every interleaving no instance is held by two holders at the
\* same time, and an instance is handed to a holder only if nobody held it:
\* it was in the pool, released, or is newly allocated.
C10_ExclusiveHolders ==
  [][/\ Exclusive'
     /\ \A t \in Threads : \A i \in held'[t] \ held[t] :
          /\ \A u \in Threads : i \notin held[u]
          /\ i \in textPool \cup ansiPool \/ obj[i].kind = "none"
          /\ i \notin textPool' \cup ansiPool']_vars

\* C10 witness: while goroutine 1 is inside WriteEntry holding its encoder and
\* its temporary buffer, goroutine 2 is handed instance 1 again, which was
\* allocated before instance 2 was.
C10_Witness ==
  /\ pc[1] = "write"
  /\ Cardinality(held[1]) = 2
  /\ last.op \in {"NewTextEncoder", "Clone"}
  /\ last.t = 2
  /\ last.out = 1
  /\ last.out \in held[2]

\* C11: WriteEntry with a nil sink, on either encoder, returns errNilSink
\* at once: the sink's Write is not called, nothing is taken from or put into
\* a pool, and no buffer or setting of any instance changes.
C11_NilSinkReturnsAtOnce ==
  [][last'.op = "WriteEntry" /\ last'.args[1].isNil
       => /\ last'.res = errNilSink
          /\ last'.writes = 0
          /\ last'.line = <<>>
          /\ textPool' = textPool
          /\ ansiPool' = ansiPool
          /\ held' = held
          /\ obj' = obj
          /\ mem' = mem]_vars

\* C11 witness: the ANSI encoder, holding a field, was given a nil sink while
\* textPool had an instance to hand out.
C11_Witness ==
  /\ last.op = "WriteEntry"
  /\ last.args[1].isNil
  /\ last.res = errNilSink
  /\ obj[last.enc].kind = "ansi"
  /\ Bytes(last.enc) = <<"k", "=", "a">>
  /\ textPool # {}

\* The line textEncoder.WriteEntry builds for an encoder with these settings
\* and accumulated fields.
TextEncoderLine(e, fields, name, msg, lvl, tm) ==
  LET Z == [obj |-> [i \in {1, 2} |->
                       IF i = 1 THEN [e EXCEPT !.kind = "text", !.arr = 1,
                                               !.len = Len(fields)]
                       ELSE zeroObj(2, "text")],
            mem |-> [a \in {1, 2} |-> IF a = 1 THEN fields ELSE <<>>]]
  IN BytesOf(textAssemble(Z, 1, 2, name, msg, lvl, tm), 2)

\* The color configured for a recognized level.
LevelColor(colors, lvl) ==
  CASE lvl = DebugLevel -> colors.debugColor
    [] lvl = InfoLevel -> colors.infoColor
    [] lvl = WarnLevel -> colors.warnColor
    [] lvl = ErrorLevel -> colors.errorColor
    [] lvl = PanicLevel -> colors.panicColor
    [] lvl = FatalLevel -> colors.fatalColor

\* C12: for the same level, instant, name, message, settings and fields the
\* line of the ANSI encoder is the level's color code, the text encoder's
\* line without its newline, the reset code and '\n' when the level is one of
\* the six; for any other level it is the text encoder's line, with no color
\* code and no reset code.
C12_ColorAroundTextLine ==
  WroteTo("ansi") =>
    LET e == obj[last.enc]
        a == last.args
        T == TextEncoderLine(e, Bytes(last.enc), a[2], a[3], a[4], a[5])
    IN /\ Last(T) = "\n"
       /\ T = TextLine(e.timeFmt, e.noName, Bytes(last.enc), a[2], a[3], a[4], a[5])
       /\ last.line = IF a[4] \in StdLevels
                      THEN LevelColor(e.colors, a[4]) \o SubSeq(T, 1, Len(T) - 1)
                             \o resetColor \o <<"\n">>
                      ELSE T

\* C12 witness: a warning with a name, a message and a field, in yellow.
C12_Witness ==
  /\ WroteTo("ansi")
  /\ last.args[4] = WarnLevel
  /\ last.line = <<"ESC[yellow]", "[", "W", "]", " ", "time(0)@15:04", " ", "n",
                   " ", "m", " ", "k", "=", "a", "ESC[reset]", "\n">>

\* The text the specification gives a field, and the fields a marshaler
\* adds: the first nested field without a separator, each later one after one.
RECURSIVE FieldText(_), NestedText(_, _)
FieldText(op) ==
  op[2] \o <<"=">> \o
    (IF op[1] = "Marshaler" THEN <<"{">> \o NestedText(op[3].ops, TRUE) \o <<"}">>
     ELSE CanonicalText(op[1], op[3]))

NestedText(ops, first) ==
  IF ops = <<>> THEN <<>>
  ELSE (IF first THEN <<>> ELSE <<" ">>) \o FieldText(Head(ops))
         \o NestedText(Tail(ops), FALSE)

\* Every AddMarshaler call that has not returned has its '{' in the buffer,
\* the calls' braces in nesting order, and no call is open once all returned.
BracesOpen(t) ==
  IF pc[t] = "marshal"
  THEN LET st == frame[t].stack
           b == Bytes(frame[t].enc)
       IN /\ Len(st) > 0
          /\ \A i \in 1..Len(st) : st[i].open <= Len(b) /\ b[st[i].open] = "{"
          /\ \A i \in 1..(Len(st) - 1) : st[i].open < st[i + 1].open
  ELSE frame[t] = NoFrame

\* C13 (as claimed): AddMarshaler(k, obj) extends the buffer by the separator,
\* k, '=', '{', the nested fields (the first without a separator, each later
\* one after a separator) and '}'; while calls are open each has its '{' in
\* the buffer, every return appends the '}' of the innermost open call, and
\* none is open once all have returned, whether the marshalers fail or not.
C13_MarshalerFraming ==
  [][/\ \A t \in Threads : BracesOpen(t)'
     /\ last'.op = "AddMarshaler"
          => LET c == Top(last'.t)
                 b == SubSeq(Bytes(last'.enc), 1, c.start)
             IN /\ BytesOf(Heap', last'.enc) = Bytes(last'.enc) \o <<"}">>
                /\ BytesOf(Heap', last'.enc) =
                     b \o Separator(b) \o FieldText(<<"Marshaler", c.key, c.m>>)]_vars

\* C14: every step of an AddMarshaler call keeps the bytes the buffer held as
\* a prefix; the call returns the error its marshaler reported, and no error
\* if it reported none; in both cases the separator, key, '=' and '{' it
\* appended and all that the marshaler added are still in the buffer,
\* followed by '}'.
C14_MarshalErrorKeepsOutput ==
  [][last'.op \in {"AddMarshaler.call", "Add", "AddMarshaler"}
       => /\ IsPrefix(Bytes(last'.enc), BytesOf(Heap', last'.enc))
          /\ last'.op = "AddMarshaler"
               => LET c == Top(last'.t)
                      b == SubSeq(Bytes(last'.enc), 1, c.start)
                  IN /\ last'.res = IF c.m.err = "nil" THEN <<"nil">>
                                     ELSE <<"error", c.m.err>>
                     /\ BytesOf(Heap', last'.enc) = Bytes(last'.enc) \o <<"}">>
                     /\ IsPrefix(b \o Separator(b) \o c.key \o <<"=", "{">>,
                                 Bytes(last'.enc))]_vars

\* C14 witness: a marshaler that added a field and a nested marshaler, which
\* added one more, has failed; all of it is in the buffer.
C14_Witness ==
  /\ last.op = "AddMarshaler"
  /\ pc[last.t] = "idle"
  /\ last.res = <<"error", "EMarshal">>
  /\ Bytes(last.enc) = <<"o", "=", "{", "a", "=", "1", " ", "o", "=", "{", "b", "=",
                         "-", "7", "}", "}">>

\* C15: Free leaves the released instance as it is, fields included;
\* NewTextEncoder and NewANSIEncoder return an encoder whose buffer has length
\* zero whatever the instance held when the pool handed it out; and the first
\* field added to it is the key, '=' and the value, with no separator.
C15_AcquiredIsEmpty ==
  [][/\ last'.op = "Free" => obj' = obj /\ mem' = mem
     /\ last'.op \in {"NewTextEncoder", "NewANSIEncoder"}
          => obj'[last'.out].len = 0 /\ BytesOf(Heap', last'.out) = <<>>
     /\ (/\ last.op \in {"NewTextEncoder", "NewANSIEncoder"}
         /\ last'.op = "Add"
         /\ last'.enc = last.out)
          => BytesOf(Heap', last'.enc) =
               last'.args[2] \o <<"=">> \o CanonicalText(last'.args[1], last'.args[3])]_vars

\* C15 witness: the pool handed NewANSIEncoder an instance that was released
\* holding two fields, and the encoder returned is empty.
C15_Witness ==
  /\ last.op = "NewANSIEncoder"
  /\ last.line = <<"k", "=", "a", " ", "k", "=", "b">>
  /\ last.out \in held[1]
  /\ Bytes(last.out) = <<>>

\* The sixteen uppercase hexadecimal digits, in order of value.
UpperHex ==
  <<"0", "1", "2", "3", "4", "5", "6", "7", "8", "9", "A", "B", "C", "D", "E", "F">>

HexValue(c) == (CHOOSE i \in 1..Len(UpperHex) : UpperHex[i] = c) - 1

\* The bytes a sequence of hexadecimal digits stands for, two digits a byte.
RECURSIVE HexDecode(_)
HexDecode(ds) ==
  IF Len(ds) < 2 THEN <<>>
  ELSE <<HexValue(ds[1]) * 16 + HexValue(ds[2])>> \o HexDecode(Tail(Tail(ds)))

\* C16: hexEncode(dst, src) returns dst as it was, then "0x", then for each
\* byte of src, in order, its high and its low nibble as uppercase
\* hexadecimal digits; its length is len(dst) + 2 + 2*len(src) and decoding
\* the digits gives src; AddByte(k, b) appends what AddBytes(k, [b]) appends.
C16_HexEncode ==
  [][/\ last'.op = "hexEncode"
          => LET dst == last'.args[1]
                 src == last'.args[2]
                 r == last'.line
                 ds == Suffix(r, Len(dst) + 2)
             IN /\ Len(r) = Len(dst) + 2 + 2 * Len(src)
                /\ SubSeq(r, 1, Len(dst)) = dst
                /\ SubSeq(r, Len(dst) + 1, Len(dst) + 2) = <<"0", "x">>
                /\ \A i \in 1..Len(src) :
                     /\ ds[2 * i - 1] = UpperHex[(src[i] \div 16) + 1]
                     /\ ds[2 * i] = UpperHex[(src[i] % 16) + 1]
                /\ HexDecode(ds) = src
     /\ last'.op = "Add" /\ last'.args[1] = "Byte"
          => BytesOf(Heap', last'.enc) =
               BytesOf(AddBytes(Heap, last'.enc, last'.args[2], <<last'.args[3]>>),
                       last'.enc)
     /\ last'.op = "Add" /\ last'.args[1] = "Bytes"
          => BytesOf(Heap', last'.enc) =
               hexEncode(Bytes(last'.enc) \o Separator(Bytes(last'.enc))
                           \o last'.args[2] \o <<"=">>, last'.args[3])]_vars

\* C16 witness: three bytes were encoded after a destination that itself
\* looks like hex output.
C16_Witness ==
  /\ last.op = "hexEncode"
  /\ last.args = <<(<<"0", "x", "A">>), (<<10, 171, 0>>)>>
  /\ last.line = <<"0", "x", "A", "0", "x", "0", "A", "A", "B", "0", "0">>

\* The line a WriteEntry call that runs alone hands its sink, for the encoder
\* instance i as it now is.
SequentialLine(i, name, msg, lvl, tm) ==
  LET Z == [obj |-> [j \in {1, 2} |->
                       IF j = 1 THEN [obj[i] EXCEPT !.arr = 1] ELSE zeroObj(2, "text")],
            mem |-> [a \in {1, 2} |-> IF a = 1 THEN Bytes(i) ELSE <<>>]]
  IN BytesOf(assemble(Z, 1, 2, name, msg, lvl, tm), 2)

\* The goroutines that are inside a WriteEntry call.
Writing == {t \in Threads : pc[t] # "idle"}

\* C17: while goroutines write entries with one shared encoder at the same
\* time, no two calls have the same temporary buffer, each call hands its
\* sink the complete line a call running alone would and returns no error,
\* and no step changes the shared encoder's buffer or settings.
C17_ConcurrentWriteEntry ==
  [][/\ \A t, u \in Writing' : t # u => frame'[t].final # frame'[u].final
     /\ \A t \in Writing' : frame'[t].final # frame'[t].enc
     /\ last'.op = "WriteEntry.Write"
          => LET f == frame[last'.t]
             IN /\ last'.line = SequentialLine(f.enc, f.name, f.msg, f.lvl, f.t)
                /\ Last(last'.line) = "\n"
     /\ last'.op = "WriteEntry" => last'.res = <<"nil">>
     /\ obj'[1] = obj[1]
     /\ BytesOf(Heap', 1) = Bytes(1)]_vars

\* C17 witness: goroutine 1 has handed its sink the line of one message while
\* goroutine 2, using the same ANSI encoder, has the line of another message
\* assembled in a different buffer.
C17_Witness ==
  /\ pc[1] = "free"
  /\ pc[2] = "write"
  /\ frame[1].enc = frame[2].enc
  /\ obj[frame[1].enc].kind = "ansi"
  /\ frame[1].final # frame[2].final
  /\ frame[1].line = <<"ESC[green]", "[", "I", "]", " ",
                       "time(0)@2006-01-02T15:04:05Z07:00", " ", "n", " ", "m", " ",
                       "k", "=", "a", "ESC[reset]", "\n">>
  /\ Bytes(frame[2].final) = <<"[", "7", "]", " ",
                               "time(0)@2006-01-02T15:04:05Z07:00", " ", "n", " ",
                               "w", " ", "k", "=", "a", "\n">>

=============================================================================
